---- MODULE Spec2Model ----
(***************************************************************************)
(* A model of sync-rs: the versioned cache file with its legacy migration  *)
(* (src/src/cache.rs), the helpers of src/src/config.rs and the resolver   *)
(* in main (src/src/main.rs), which ends with calls of the adapters of     *)
(* src/src/sync.rs.                                                        *)
(*                                                                         *)
(* Strings are sequences of characters (one-character TLA+ strings), so    *)
(* that replace('/', "_"), split(':'), starts_with and parse::<usize> are  *)
(* computed and not assumed.  Option<T> is <<>> (None) or <<x>> (Some(x)). *)
(* A file is Absent or holds a document: a JSON value (tagged records) or  *)
(* bytes that are no JSON at all.  serde's derive is modelled by what it   *)
(* does: required fields, #[serde(default)] fields, null for None, and     *)
(* unknown fields ignored.                                                 *)
(***************************************************************************)
EXTENDS Integers, Sequences, FiniteSets, TLC

VARIABLES
    file,       \* content of cache.json, or Absent
    backup,     \* content of cache.json.bak, or Absent
    preFile,    \* cache.json when the last invocation started
    preBackup,  \* cache.json.bak when the last invocation started
    loaded,     \* what read_cache returned to the last invocation
    op,         \* the path the last invocation took through main
    cwd,        \* current directory of the last invocation
    args,       \* command line and terminal input of the last invocation
    cache,      \* the in-memory RemoteMap when the last invocation ended
    result,     \* how the last invocation ended
    saves,      \* number of save_cache calls of the last invocation
    resolved,   \* Option<RemoteEntry>: the entry main resolved
    ran,        \* the subprocess steps the last invocation started, in order
    procs,      \* two invocations running at once: where each is, what it holds
    log         \* their File::create and write calls on cache.json, in order

vars == <<file, backup, preFile, preBackup, loaded, op, cwd, args, cache,
          result, saves, resolved, ran, procs, log>>

----------------------------------------------------------------------------
(* Bounds of the model. *)

\* longest entry list the resolver is driven to in one directory
MaxEntries == 2
\* largest number typed at the selection prompt
MaxSelection == 3
\* latest subprocess step that is made to exit non-zero
MaxFailStep == 1
\* longest entry list of a store that is saved and loaded again
MaxListLen == 2
\* longest list of existing names a new name is generated against
MaxNames == 3
MaxFailAt == 6

----------------------------------------------------------------------------
(* Strings *)

None == <<>>
Some(x) == <<x>>
IsSome(o) == o # <<>>

\* str::replace('/', "_")
ReplaceSlash(s) == [i \in 1..Len(s) |-> IF s[i] = "/" THEN "_" ELSE s[i]]

\* format!("{}_{}", h, d.replace('/', "_"))
SlugName(h, d) == h \o <<"_">> \o ReplaceSlash(d)

----------------------------------------------------------------------------
(* JSON documents *)

Absent == [t |-> "absent"]
NotJson == [t |-> "invalid"]
JNull == [t |-> "null"]
JStr(s) == [t |-> "str", v |-> s]
JBool(b) == [t |-> "bool", v |-> b]
JArr(s) == [t |-> "arr", v |-> s]
JObj(f) == [t |-> "obj", v |-> f]

IsJStr(j) == j.t = "str"
IsJObj(j) == j.t = "obj"
HasKey(j, k) == k \in DOMAIN j.v

\* Vec<String>
IsJStrArr(j) == j.t = "arr" /\ \A i \in 1..Len(j.v) : IsJStr(j.v[i])
StrArr(j) == [i \in 1..Len(j.v) |-> j.v[i].v]
ToJStrArr(s) == JArr([i \in 1..Len(s) |-> JStr(s[i])])

\* Option<String>: null is None
IsJOptStr(j) == j.t = "null" \/ IsJStr(j)
OptStr(j) == IF j.t = "null" THEN None ELSE Some(j.v)
ToJOptStr(o) == IF o = None THEN JNull ELSE JStr(o[1])

EmptyStore == <<>>

----------------------------------------------------------------------------
(* RemoteEntry and its serde derive *)

RemoteEntry(n, h, d, ov, post, pref, ign) ==
    [name |-> n, remote_host |-> h, remote_dir |-> d, override_paths |-> ov,
     post_sync_command |-> post, preferred |-> pref, ignore_patterns |-> ign]

\* Serialize for RemoteEntry: every field is written
SerEntryDropPreferred(e) ==
    JObj([name |-> JStr(e.name),
          remote_host |-> JStr(e.remote_host),
          remote_dir |-> JStr(e.remote_dir),
          override_paths |-> ToJStrArr(e.override_paths),
          post_sync_command |-> ToJOptStr(e.post_sync_command),
          ignore_patterns |-> ToJStrArr(e.ignore_patterns)])

SerEntry(e) ==
    JObj([name |-> JStr(e.name),
          remote_host |-> JStr(e.remote_host),
          remote_dir |-> JStr(e.remote_dir),
          override_paths |-> ToJStrArr(e.override_paths),
          post_sync_command |-> ToJOptStr(e.post_sync_command),
          preferred |-> JBool(e.preferred),
          ignore_patterns |-> ToJStrArr(e.ignore_patterns)])

\* Deserialize for RemoteEntry: name, remote_host and remote_dir are required,
\* the other fields are #[serde(default)]
EntryParses(j) ==
    /\ IsJObj(j)
    /\ \A k \in {"name", "remote_host", "remote_dir"} : HasKey(j, k) /\ IsJStr(j.v[k])
    /\ HasKey(j, "override_paths") => IsJStrArr(j.v["override_paths"])
    /\ HasKey(j, "post_sync_command") => IsJOptStr(j.v["post_sync_command"])
    /\ HasKey(j, "preferred") => j.v["preferred"].t = "bool"
    /\ HasKey(j, "ignore_patterns") => IsJStrArr(j.v["ignore_patterns"])

DeEntry(j) ==
    RemoteEntry(j.v["name"].v, j.v["remote_host"].v, j.v["remote_dir"].v,
        IF HasKey(j, "override_paths") THEN StrArr(j.v["override_paths"]) ELSE <<>>,
        IF HasKey(j, "post_sync_command") THEN OptStr(j.v["post_sync_command"]) ELSE None,
        IF HasKey(j, "preferred") THEN j.v["preferred"].v ELSE FALSE,
        IF HasKey(j, "ignore_patterns") THEN StrArr(j.v["ignore_patterns"]) ELSE <<>>)

\* RemoteMap = HashMap<String, Vec<RemoteEntry>>
SerStore(s) ==
    JObj([d \in DOMAIN s |-> JArr([i \in 1..Len(s[d]) |-> SerEntry(s[d][i])])])

StoreParses(j) ==
    /\ IsJObj(j)
    /\ \A d \in DOMAIN j.v :
          /\ j.v[d].t = "arr"
          /\ \A i \in 1..Len(j.v[d].v) : EntryParses(j.v[d].v[i])

DeStore(j) ==
    [d \in DOMAIN j.v |-> [i \in 1..Len(j.v[d].v) |-> DeEntry(j.v[d].v[i])]]

\* VersionedCache { version, entries }
VersionedParses(doc) ==
    /\ IsJObj(doc)
    /\ HasKey(doc, "version") /\ IsJStr(doc.v["version"])
    /\ HasKey(doc, "entries") /\ StoreParses(doc.v["entries"])

\* LegacyCacheEntry: remote_host and remote_dir required, the rest defaulted
LegacyEntryParses(j) ==
    /\ IsJObj(j)
    /\ \A k \in {"remote_host", "remote_dir"} : HasKey(j, k) /\ IsJStr(j.v[k])
    /\ HasKey(j, "override_paths") => IsJStrArr(j.v["override_paths"])
    /\ HasKey(j, "post_sync_command") => IsJOptStr(j.v["post_sync_command"])

DeLegacyEntry(j) ==
    [remote_host |-> j.v["remote_host"].v,
     remote_dir |-> j.v["remote_dir"].v,
     override_paths |->
        IF HasKey(j, "override_paths") THEN StrArr(j.v["override_paths"]) ELSE <<>>,
     post_sync_command |->
        IF HasKey(j, "post_sync_command") THEN OptStr(j.v["post_sync_command"]) ELSE None]

\* LegacyCache = HashMap<String, LegacyCacheEntry>
LegacyParses(doc) ==
    /\ IsJObj(doc)
    /\ \A d \in DOMAIN doc.v : LegacyEntryParses(doc.v[d])

DeLegacy(doc) == [d \in DOMAIN doc.v |-> DeLegacyEntry(doc.v[d])]

----------------------------------------------------------------------------
(* cache.rs *)

\* env!("CARGO_PKG_VERSION")
current_version == <<"cur">>

\* LegacyMigrator::can_migrate
can_migrate(data) == LegacyParses(data)

\* LegacyMigrator::convert_legacy_cache
convert_legacy_cache_host_only(legacy) ==
    [d \in DOMAIN legacy |->
        << RemoteEntry(legacy[d].remote_host,
                       legacy[d].remote_host, legacy[d].remote_dir,
                       legacy[d].override_paths, legacy[d].post_sync_command,
                       FALSE, <<>>) >>]

convert_legacy_cache(legacy) ==
    [d \in DOMAIN legacy |->
        << RemoteEntry(SlugName(legacy[d].remote_host, legacy[d].remote_dir),
                       legacy[d].remote_host, legacy[d].remote_dir,
                       legacy[d].override_paths, legacy[d].post_sync_command,
                       FALSE, <<>>) >>]

\* What read_cache hands back: the Result, and the two files as it leaves them.
LoadResult(res, entries, f, b, path) ==
    [result |-> res, entries |-> entries, file |-> f, backup |-> b, path |-> path]

\* LegacyMigrator::migrate.  data are the bytes read_cache read; f is what is
\* at cache_path when fs::copy runs; copyOk is whether fs::copy succeeds.
migrate_no_backup(data, f, b, copyOk) ==
    LoadResult("ok", convert_legacy_cache(DeLegacy(data)), f, b, "migrated")

migrate(data, f, b, copyOk) ==
    IF copyOk
    THEN LoadResult("ok", convert_legacy_cache(DeLegacy(data)), f, f, "migrated")
    ELSE LoadResult("io_error", EmptyStore, f, b, "backup_failed")

\* MigrationManager::read_cache
read_cache_reset_file(f, b, copyOk) ==
    IF f = Absent THEN LoadResult("ok", EmptyStore, f, b, "absent")
    ELSE IF VersionedParses(f)
    THEN LoadResult("ok", DeStore(f.v["entries"]), f, b,
            IF f.v["version"].v = current_version THEN "current" ELSE "other_version")
    ELSE IF can_migrate(f) THEN migrate(f, f, b, copyOk)
    ELSE LoadResult("ok", EmptyStore,
            JObj([version |-> JStr(current_version), entries |-> SerStore(EmptyStore)]),
            b, "unrecognised")

read_cache_current_only(f, b, copyOk) ==
    IF f = Absent THEN LoadResult("ok", EmptyStore, f, b, "absent")
    ELSE IF VersionedParses(f) /\ f.v["version"].v = current_version
    THEN LoadResult("ok", DeStore(f.v["entries"]), f, b, "current")
    ELSE IF can_migrate(f) THEN migrate(f, f, b, copyOk)
    ELSE LoadResult("ok", EmptyStore, f, b, "unrecognised")

read_cache(f, b, copyOk) ==
    IF f = Absent THEN LoadResult("ok", EmptyStore, f, b, "absent")
    ELSE IF VersionedParses(f)
    THEN LoadResult("ok", DeStore(f.v["entries"]), f, b,
            IF f.v["version"].v = current_version THEN "current" ELSE "other_version")
    ELSE IF can_migrate(f) THEN migrate(f, f, b, copyOk)
    ELSE LoadResult("ok", EmptyStore, f, b, "unrecognised")

\* MigrationManager::save_cache
save_cache_bare_store(entries) == SerStore(entries)

\* MigrationManager::save_cache: the new content of the cache file
save_cache(entries) ==
    JObj([version |-> JStr(current_version), entries |-> SerStore(entries)])

----------------------------------------------------------------------------
(* Terminal input and numbers *)

IsSpace(c) == c \in {" ", "\n"}

\* str::trim
RECURSIVE TrimStart(_)
TrimStart(s) == IF s # <<>> /\ IsSpace(s[1]) THEN TrimStart(Tail(s)) ELSE s

RECURSIVE TrimEnd(_)
TrimEnd(s) ==
    IF s # <<>> /\ IsSpace(s[Len(s)]) THEN TrimEnd(SubSeq(s, 1, Len(s) - 1)) ELSE s

Trim(s) == TrimEnd(TrimStart(s))

DigitChars == <<"0", "1", "2", "3", "4", "5", "6", "7", "8", "9">>
IsDigit(c) == \E i \in 1..Len(DigitChars) : DigitChars[i] = c
DigitVal(c) == (CHOOSE i \in 1..Len(DigitChars) : DigitChars[i] = c) - 1

RECURSIVE DigitsValue(_)
DigitsValue(s) ==
    IF s = <<>> THEN 0
    ELSE 10 * DigitsValue(SubSeq(s, 1, Len(s) - 1)) + DigitVal(s[Len(s)])

\* the digits of a number, once a leading '+' is gone
ParseDigits(body) ==
    IF body = <<>> \/ \E i \in 1..Len(body) : ~IsDigit(body[i])
    THEN [ok |-> FALSE, v |-> 0]
    ELSE [ok |-> TRUE, v |-> DigitsValue(body)]

\* str::parse::<usize>: an optional '+', then one or more decimal digits.
\* (The inputs of the model are far below usize::MAX, so the digits never
\* overflow.)
ParseUsize(s) == ParseDigits(IF s # <<>> /\ s[1] = "+" THEN Tail(s) ELSE s)

\* Display for usize
RECURSIVE Decimal(_)
Decimal(n) ==
    IF n < 10 THEN <<DigitChars[n + 1]>>
    ELSE Decimal(n \div 10) \o <<DigitChars[(n % 10) + 1]>>

StartsWith(s, p) == Len(s) >= Len(p) /\ SubSeq(s, 1, Len(p)) = p

\* host.split(':').next(): the part before the first ':'
RECURSIVE BeforeColon(_)
BeforeColon(s) ==
    IF s = <<>> \/ s[1] = ":" THEN <<>> ELSE <<s[1]>> \o BeforeColon(Tail(s))

Max(a, b) == IF a >= b THEN a ELSE b

----------------------------------------------------------------------------
(* config.rs *)

\* io::stdin().read_line: the i-th line typed, nothing at end of input
ReadLine(stdin, i) == IF i <= Len(stdin) THEN stdin[i] ELSE <<>>

\* prompt_remote_info: the two lines typed, trimmed
prompt_remote_info(stdin) == <<Trim(ReadLine(stdin, 1)), Trim(ReadLine(stdin, 2))>>

\* select_remote after `selection.trim().parse::<usize>()` gave p.
\* `index = p - 1` is a usize subtraction: for p = 0 a debug build panics and
\* a release build wraps to usize::MAX, which is >= entries.len() for every
\* list.
SelectParsed(entries, p, debug) ==
    IF ~p.ok THEN [result |-> "validation_error", name |-> <<>>]
    ELSE IF p.v = 0
    THEN [result |-> IF debug THEN "panic" ELSE "validation_error", name |-> <<>>]
    ELSE IF p.v - 1 >= Len(entries)
    THEN [result |-> "validation_error", name |-> <<>>]
    ELSE [result |-> "ok", name |-> entries[(p.v - 1) + 1].name]

\* select_remote
select_remote(entries, line, debug) ==
    SelectParsed(entries, ParseUsize(Trim(line)), debug)

\* list_remotes: the lines printed, one per entry, in stored order
ListLines(entries) ==
    [i \in 1..Len(entries) |->
        [index |-> i, name |-> entries[i].name, preferred |-> entries[i].preferred]]

list_remotes(c, d) == ListLines(IF d \in DOMAIN c THEN c[d] ELSE <<>>)

\* remove_remote once entries.retain(|e| e.name != name) has left `kept`
Removed(c, d, kept) ==
    [result |-> IF Len(kept) = Len(c[d]) THEN "validation_error" ELSE "ok",
     cache |-> [c EXCEPT ![d] = kept]]

\* remove_remote
remove_remote_first_only(c, d, name) ==
    IF d \notin DOMAIN c THEN [result |-> "validation_error", cache |-> c]
    ELSE Removed(c, d, IF Len(c[d]) = 0 THEN c[d] ELSE Tail(c[d]))

remove_remote(c, d, name) ==
    IF d \notin DOMAIN c THEN [result |-> "validation_error", cache |-> c]
    ELSE Removed(c, d, SelectSeq(c[d], LAMBDA e : e.name # name))

\* one turn of the loop of generate_unique_name: entry name n, highest_index
\* prev before it
HighestStep(prev, n, base) ==
    IF n = base THEN 1
    ELSE IF StartsWith(n, base \o <<"_">>)
         /\ ParseUsize(SubSeq(n, Len(base) + 2, Len(n))).ok
    THEN Max(prev, ParseUsize(SubSeq(n, Len(base) + 2, Len(n))).v + 1)
    ELSE prev

\* highest_index after the first k entries
RECURSIVE HighestIndex(_, _, _)
HighestIndex(entries, base, k) ==
    IF k = 0 THEN 0
    ELSE HighestStep(HighestIndex(entries, base, k - 1), entries[k].name, base)

UniqueName(base, c, d) ==
    IF d \notin DOMAIN c \/ ~\E i \in 1..Len(c[d]) : c[d][i].name = base
    THEN base
    ELSE base \o <<"_">> \o Decimal(HighestIndex(c[d], base, Len(c[d])))

\* generate_unique_name
generate_unique_name(host, c, d) == UniqueName(BeforeColon(host), c, d)

----------------------------------------------------------------------------
(* The preferred flag.  src/src/main.rs has no --preferred option; the field *)
(* is declared in config.rs and read by list_remotes.  What the resolver    *)
(* does with the flag follows the design of the resolver: setting it on one *)
(* entry clears it on the siblings, and an entry already preferred is the   *)
(* one used when no flag is given.                                          *)

\* every sibling entry's preferred is cleared
clear_preferred_keep_first(entries) ==
    [i \in 1..Len(entries) |-> IF i = 1 THEN entries[i]
                               ELSE [entries[i] EXCEPT !.preferred = FALSE]]

clear_preferred(entries) ==
    [i \in 1..Len(entries) |-> [entries[i] EXCEPT !.preferred = FALSE]]

\* the entry already marked preferred, if one exists
preferred_name(entries) ==
    IF \E i \in 1..Len(entries) : entries[i].preferred
    THEN Some(entries[CHOOSE i \in 1..Len(entries) :
                 /\ entries[i].preferred
                 /\ \A j \in 1..(i - 1) : ~entries[j].preferred].name)
    ELSE None

\* the siblings as the resolver leaves them when a.preferred is given
Siblings(entries, a) == IF a.preferred THEN clear_preferred(entries) ELSE entries

SetPreferred(e, a) == IF a.preferred THEN [e EXCEPT !.preferred = TRUE] ELSE e

----------------------------------------------------------------------------
(* main.rs *)

\* The subprocesses main starts once it has an entry, in order:
\* get_remote_home, sync_directory("."), one sync_directory per override
\* path, execute_ssh_command for the post-sync command, open_remote_shell.
\* One call of an adapter of sync.rs: get_remote_home(host),
\* sync_directory(source, ..), execute_ssh_command(host, "cd .. && " + cmd),
\* open_remote_shell(host, ..).  Each returns Err when its subprocess exits
\* non-zero (sync_directory: rsync --version or rsync itself).
Step(s, a) == [step |-> s, arg |-> a]

SyncSteps(entry, shell) ==
    << Step("remote_home", entry.remote_host), Step("sync_main", <<".">>) >>
    \o [i \in 1..Len(entry.override_paths) |->
            Step("sync_override", entry.override_paths[i])]
    \o (IF entry.post_sync_command # None
        THEN << Step("post_command", entry.post_sync_command[1]) >> ELSE <<>>)
    \o (IF shell THEN << Step("shell", entry.remote_host) >> ELSE <<>>)

\* Every `?` after a subprocess returns at the first non-zero exit;
\* fail_step is the step that exits non-zero (0: none does).
RunSteps_run_all(steps, fail_step) ==
    [result |-> IF fail_step \in 1..Len(steps) THEN "subprocess_error" ELSE "ok",
     ran |-> steps]

RunSteps(steps, fail_step) ==
    IF fail_step \in 1..Len(steps)
    THEN [result |-> "subprocess_error", ran |-> SubSeq(steps, 1, fail_step)]
    ELSE [result |-> "ok", ran |-> steps]

RunSync(entry, shell, fail_step) == RunSteps(SyncSteps(entry, shell), fail_step)

\* if !cache.contains_key(&current_dir_str) { cache.insert(.., Vec::new()) }
EnsureDir(c, d) ==
    [x \in DOMAIN c \cup {d} |-> IF x \in DOMAIN c THEN c[x] ELSE <<>>]

\* entries.iter().position(|e| e.name == name), 0 for None
Position(entries, name) ==
    IF \E i \in 1..Len(entries) : entries[i].name = name
    THEN CHOOSE i \in 1..Len(entries) :
            /\ entries[i].name = name
            /\ \A j \in 1..(i - 1) : entries[j].name # name
    ELSE 0

\* exactly one of remote_host and remote_dir
PartialPair_host_only(a) == a.remote_host # None /\ a.remote_dir = None

PartialPair(a) ==
    /\ a.remote_host # None \/ a.remote_dir # None
    /\ ~(a.remote_host # None /\ a.remote_dir # None)

\* What main has done when it reaches the subprocesses or returns before
\* them: the path taken, the store, the stores handed to save_cache (in
\* order), and the entry.
Resolution(o, c, res, writes, entry) ==
    [op |-> o, cache |-> c, result |-> res, writes |-> writes, resolved |-> entry]

\* cache changed to c1 and saved, entry returned
Saved(o, c1, entry) == Resolution(o, c1, "ok", <<c1>>, Some(entry))

\* args.name.clone().unwrap_or_else(|| format!("{}_{}", h, d.replace('/', "_")))
EntryName_host(a, h, rd) == IF a.name # None THEN a.name[1] ELSE h

EntryName(a, h, rd) == IF a.name # None THEN a.name[1] ELSE SlugName(h, rd)

NewEntry(a, h, rd, pref) ==
    RemoteEntry(EntryName(a, h, rd), h, rd, a.override_path, a.post_command, pref,
                <<>>)

\* if let Some(index) = position { entries[index] = entry } else { push }
PutAt_remove_and_push(entries, entry, index) ==
    Append(SelectSeq(entries, LAMBDA e : e.name # entry.name), entry)

PutAt(entries, entry, index) ==
    IF index > 0 THEN [entries EXCEPT ![index] = entry] ELSE Append(entries, entry)

Put(entries, entry) == PutAt(entries, entry, Position(entries, entry.name))

ExplicitWith(c, d, entries, entry) ==
    Saved("explicit", [c EXCEPT ![d] = Put(entries, entry)], entry)

\* main, "Create new remote entry": explicit host and dir
ResolveExplicit_always_push(c, d, a) ==
    Saved("explicit",
          [c EXCEPT ![d] = Append(Siblings(c[d], a),
                NewEntry(a, a.remote_host[1], a.remote_dir[1], a.preferred))],
          NewEntry(a, a.remote_host[1], a.remote_dir[1], a.preferred))

ResolveExplicit(c, d, a) ==
    ExplicitWith(c, d, Siblings(c[d], a),
                 NewEntry(a, a.remote_host[1], a.remote_dir[1], a.preferred))

PromptedWith(c, d, entry) == Saved("prompted", [c EXCEPT ![d] = Append(c[d], entry)], entry)

\* main, "Prompt for new remote info": no entry for this directory yet
ResolvePrompted(c, d, a) ==
    PromptedWith(c, d, NewEntry(a, prompt_remote_info(a.stdin)[1],
                                prompt_remote_info(a.stdin)[2], FALSE))

\* "Update with new parameters if provided"
SetOverride(e, a) ==
    IF a.override_path # <<>> THEN [e EXCEPT !.override_paths = a.override_path] ELSE e

SetPostCommand(e, a) ==
    IF a.post_command # None THEN [e EXCEPT !.post_sync_command = a.post_command]
    ELSE e

Updated_overwrite_all(e, a) ==
    SetPreferred([e EXCEPT !.override_paths = a.override_path,
                           !.post_sync_command = a.post_command], a)

Updated(e, a) == SetPreferred(SetPostCommand(SetOverride(e, a), a), a)

SingleWith_save_each_field(c, d, entry) ==
    Resolution("single", [c EXCEPT ![d][1] = entry], "ok",
               <<[c EXCEPT ![d][1].override_paths = entry.override_paths],
                 [c EXCEPT ![d][1] = entry]>>,
               Some(entry))

SingleWith(c, d, entry) == Saved("single", [c EXCEPT ![d][1] = entry], entry)

\* main, "Use the only entry"
ResolveSingle(c, d, a) == SingleWith(c, d, Updated(c[d][1], a))

\* main, "Multiple entries": the name of the entry to use
SelectName_name_first(entries, a) ==
    IF a.preferred /\ a.name = None
    THEN [result |-> "validation_error", name |-> <<>>]
    ELSE IF a.name # None THEN [result |-> "ok", name |-> a.name[1]]
    ELSE IF preferred_name(entries) # None
    THEN [result |-> "ok", name |-> preferred_name(entries)[1]]
    ELSE select_remote(entries, ReadLine(a.stdin, 1), a.debug_build)

SelectName(entries, a) ==
    IF a.preferred /\ a.name = None
    THEN [result |-> "validation_error", name |-> <<>>]
    ELSE IF ~a.preferred /\ preferred_name(entries) # None
    THEN [result |-> "ok", name |-> preferred_name(entries)[1]]
    ELSE IF a.name # None THEN [result |-> "ok", name |-> a.name[1]]
    ELSE select_remote(entries, ReadLine(a.stdin, 1), a.debug_build)

Mutates(a) == a.override_path # <<>> \/ a.post_command # None \/ a.preferred

MultiUpdate(c, d, entries, index, entry) ==
    Saved("multi", [c EXCEPT ![d] = [entries EXCEPT ![index] = entry]], entry)

\* the entry named by sel, found at index (0: not found)
MultiFound_always_save(c, d, a, sel, index) ==
    IF sel.result # "ok" THEN Resolution("multi", c, sel.result, <<>>, None)
    ELSE IF index = 0 THEN Resolution("multi", c, "validation_error", <<>>, None)
    ELSE MultiUpdate(c, d, Siblings(c[d], a), index, Updated(c[d][index], a))

MultiFound(c, d, a, sel, index) ==
    IF sel.result # "ok" THEN Resolution("multi", c, sel.result, <<>>, None)
    ELSE IF index = 0 THEN Resolution("multi", c, "validation_error", <<>>, None)
    ELSE IF Mutates(a)
    THEN MultiUpdate(c, d, Siblings(c[d], a), index, Updated(c[d][index], a))
    ELSE Resolution("multi", c, "ok", <<>>, Some(c[d][index]))

MultiSelected(c, d, a, sel) == MultiFound(c, d, a, sel, Position(c[d], sel.name))

\* main, "Multiple entries, prompt for selection"
ResolveMulti(c, d, a) == MultiSelected(c, d, a, SelectName(c[d], a))

\* main, "Remove a remote if requested": saved only when remove_remote is Ok
RemoveWith_save_always(r) == Resolution("remove", r.cache, r.result, <<r.cache>>, None)

RemoveWith(r) ==
    Resolution("remove", r.cache, r.result,
               IF r.result = "ok" THEN <<r.cache>> ELSE <<>>, None)

\* main from "List all remotes if requested" to the entry
Dispatch_list_saves(c, d, a) ==
    IF a.list THEN Resolution("list", c, "ok", <<c>>, None)
    ELSE IF a.remove # None THEN RemoveWith(remove_remote(c, d, a.remove[1]))
    ELSE IF PartialPair(a)
    THEN Resolution("reject_pair", c, "validation_error", <<>>, None)
    ELSE IF a.remote_host # None THEN ResolveExplicit(c, d, a)
    ELSE IF Len(c[d]) = 0 THEN ResolvePrompted(c, d, a)
    ELSE IF Len(c[d]) = 1 THEN ResolveSingle(c, d, a)
    ELSE ResolveMulti(c, d, a)

Dispatch(c, d, a) ==
    IF a.list THEN Resolution("list", c, "ok", <<>>, None)
    ELSE IF a.remove # None THEN RemoveWith(remove_remote(c, d, a.remove[1]))
    ELSE IF PartialPair(a)
    THEN Resolution("reject_pair", c, "validation_error", <<>>, None)
    ELSE IF a.remote_host # None THEN ResolveExplicit(c, d, a)
    ELSE IF Len(c[d]) = 0 THEN ResolvePrompted(c, d, a)
    ELSE IF Len(c[d]) = 1 THEN ResolveSingle(c, d, a)
    ELSE ResolveMulti(c, d, a)

Outcome(ld, r, sync) ==
    [op |-> r.op, loaded |-> ld, cache |-> r.cache,
     result |-> sync.result, writes |-> r.writes,
     resolved |-> r.resolved, ran |-> sync.ran]

\* main from "Get remote home directory" on
Finish(ld, a, r) ==
    Outcome(ld, r, IF r.result = "ok" /\ r.resolved # None
                   THEN RunSync(r.resolved[1], a.shell, a.fail_step)
                   ELSE [result |-> r.result, ran |-> <<>>])

\* main once read_cache has returned ld
MainLoaded(ld, d, a) ==
    IF ld.result # "ok"
    THEN [op |-> "load_failed", loaded |-> ld, cache |-> EmptyStore,
          result |-> ld.result, writes |-> <<>>, resolved |-> None, ran |-> <<>>]
    ELSE Finish(ld, a, Dispatch(EnsureDir(ld.entries, d), d, a))

\* One run of main in directory d with arguments a on the files f and b.
main(f, b, d, a, copyOk) == MainLoaded(read_cache(f, b, copyOk), d, a)

----------------------------------------------------------------------------
(* Inputs *)

Dirs == {"d1", "d2"}
\* directories main is run in
Cwds == {"d1"}

HostA == <<"h">>
HostB == <<"h", "_", "x">>
DirA == <<"x", "/", "y">>
DirB == <<"y">>
\* SlugName(HostA, DirA) = SlugName(HostB, DirB)
HostDirs == {<<HostA, DirA>>}
CliNames == {<<"n">>}
RemoveNames == CliNames \cup {SlugName(HostA, DirA), <<"z">>}
Overrides == {<<>>, << <<"p">> >>}
PostCommands == {None, Some(<<"c">>)}
Selections == {<<"x">>, <<"1", "\n">>} \cup {Decimal(k) : k \in 0..MaxSelection}

NoArgs ==
    [remote_host |-> None, remote_dir |-> None, override_path |-> <<>>,
     post_command |-> None, shell |-> FALSE, name |-> None, list |-> FALSE,
     remove |-> None, preferred |-> FALSE,
     stdin |-> <<>>, debug_build |-> FALSE, fail_step |-> 0]

\* the options that change an entry
OptionArgs ==
    {[NoArgs EXCEPT !.override_path = ov, !.post_command = pc, !.preferred = pf] :
        ov \in Overrides, pc \in PostCommands, pf \in BOOLEAN}

FewOptionArgs ==
    {NoArgs,
     [NoArgs EXCEPT !.name = Some(<<"n">>), !.override_path = << <<"p">> >>,
                    !.post_command = Some(<<"c">>)]}

NameOpts == {None} \cup {Some(n) : n \in CliNames}

LegacyEntryDoc(h, d) == JObj([remote_host |-> JStr(h), remote_dir |-> JStr(d)])

LegacyEntryDocFull(h, d, ov, pc) ==
    JObj([remote_host |-> JStr(h), remote_dir |-> JStr(d),
          override_paths |-> ToJStrArr(ov), post_sync_command |-> ToJOptStr(pc)])

\* legacy files: one without the defaulted fields, one with a second directory
LegacyOne == JObj("d1" :> LegacyEntryDoc(HostB, DirB))
LegacyTwo ==
    JObj(("d1" :> LegacyEntryDocFull(HostA, DirA, << <<"p">> >>, Some(<<"c">>)))
         @@ ("d2" :> LegacyEntryDocFull(HostA, DirB, <<>>, None)))
LegacyEmpty == JObj(<<>>)
\* an object that is neither an envelope nor a legacy map: remote_dir is missing
Unrecognised == JObj("d1" :> JObj([remote_host |-> JStr(HostA)]))
\* an envelope of another release, its entry without the defaulted fields
OtherVersion ==
    JObj([version |-> JStr(<<"old">>),
          entries |-> JObj("d1" :> JArr(<< JObj([name |-> JStr(<<"n">>),
                                                  remote_host |-> JStr(HostA),
                                                  remote_dir |-> JStr(DirA)]) >>))])

InitFiles == {Absent, NotJson, Unrecognised, LegacyOne, LegacyTwo, OtherVersion}

----------------------------------------------------------------------------
(* The program: one action per path through main *)

NoLoad == LoadResult("none", EmptyStore, Absent, Absent, "none")

Init ==
    /\ file \in InitFiles
    /\ backup = Absent
    /\ preFile = Absent
    /\ preBackup = Absent
    /\ loaded = NoLoad
    /\ op = "idle"
    /\ cwd = "d1"
    /\ args = NoArgs
    /\ cache = EmptyStore
    /\ result = "none"
    /\ saves = 0
    /\ resolved = None
    /\ ran = <<>>
    /\ procs = <<>>
    /\ log = <<>>

\* main, having loaded ld, runs in d with a and ends with the outcome o
Invocation(ld, d, a, o) ==
    /\ op = "idle"
    /\ \A x \in DOMAIN o.cache : Len(o.cache[x]) <= MaxEntries
    /\ file' = IF o.writes = <<>> THEN ld.file
               ELSE save_cache(o.writes[Len(o.writes)])
    /\ backup' = ld.backup
    /\ preFile' = file
    /\ preBackup' = backup
    /\ loaded' = ld
    /\ op' = o.op
    /\ cwd' = d
    /\ args' = a
    /\ cache' = o.cache
    /\ result' = o.result
    /\ saves' = Len(o.writes)
    /\ resolved' = o.resolved
    /\ ran' = o.ran
    /\ UNCHANGED <<procs, log>>

\* the invocation whose arguments and store lead main to the path `path`
Run(ld, d, a, path) ==
    \E o \in {MainLoaded(ld, d, a)} : o.op = path /\ Invocation(ld, d, a, o)

\* read_cache returns Err: fs::copy of the legacy file failed
LoadFails ==
    \E ld \in {read_cache(file, backup, FALSE)} :
        /\ ld.result # "ok"
        /\ \E d \in Cwds, a \in FewOptionArgs, h \in {None, Some(HostA)} :
                Run(ld, d, [a EXCEPT !.remote_host = h], "load_failed")

\* --list, with or without other arguments
List ==
    \E ld \in {read_cache(file, backup, TRUE)} :
        \E d \in Cwds, h \in {None, Some(HostA)}, rm \in {None, Some(<<"n">>)} :
            Run(ld, d, [NoArgs EXCEPT !.list = TRUE, !.remote_host = h, !.remove = rm],
                "list")

\* --remove NAME, with or without other arguments
Remove ==
    \E ld \in {read_cache(file, backup, TRUE)} :
        \E d \in Cwds, rm \in RemoveNames, h \in {None, Some(HostA)} :
            Run(ld, d, [NoArgs EXCEPT !.remove = Some(rm), !.remote_host = h],
                "remove")

\* The arguments with exactly one of remote_host and remote_dir, and
\* neither --list nor --remove.
PairArgs ==
    {[o EXCEPT !.remote_host = IF hostOnly THEN Some(HostA) ELSE None,
               !.remote_dir = IF hostOnly THEN None ELSE Some(DirA),
               !.preferred = pf] :
        o \in FewOptionArgs, hostOnly \in BOOLEAN, pf \in BOOLEAN}

\* exactly one of remote_host and remote_dir: whatever main does with it
RejectPair ==
    \E ld \in {read_cache(file, backup, TRUE)} :
        \E d \in Cwds, a \in PairArgs :
            \E o \in {MainLoaded(ld, d, a)} : Invocation(ld, d, a, o)

\* remote_host and remote_dir
Explicit ==
    \E ld \in {read_cache(file, backup, TRUE)} :
        \E d \in Cwds, o \in OptionArgs, n \in NameOpts, hd \in HostDirs :
            Run(ld, d,
                [o EXCEPT !.remote_host = Some(hd[1]), !.remote_dir = Some(hd[2]),
                          !.name = n],
                "explicit")

\* neither, and no entry for the directory: host and dir are typed
Prompted ==
    \E ld \in {read_cache(file, backup, TRUE)} :
        \E d \in Cwds, o \in FewOptionArgs, hd \in HostDirs, pf \in BOOLEAN :
            Run(ld, d,
                [o EXCEPT !.stdin = <<hd[1] \o <<"\n">>, hd[2] \o <<"\n">> >>,
                          !.preferred = pf],
                "prompted")

\* neither, and one entry for the directory
Single ==
    \E ld \in {read_cache(file, backup, TRUE)} :
        \E d \in Cwds :
            \/ \E o \in OptionArgs, n \in NameOpts :
                    Run(ld, d, [o EXCEPT !.name = n], "single")
            \/ \E o \in FewOptionArgs, sh \in BOOLEAN, fs \in 1..MaxFailStep :
                    Run(ld, d, [o EXCEPT !.shell = sh, !.fail_step = fs], "single")

\* neither, and several entries: by name, or by a number typed at the prompt
Multi ==
    \E ld \in {read_cache(file, backup, TRUE)} :
        \E d \in Cwds :
            \/ \E o \in OptionArgs, n \in RemoveNames :
                    Run(ld, d, [o EXCEPT !.name = Some(n)], "multi")
            \/ \E sel \in Selections, ov \in Overrides, dbg \in BOOLEAN :
                    /\ dbg => sel = Decimal(0)
                    /\ Run(ld, d, [NoArgs EXCEPT !.stdin = <<sel>>,
                                                 !.override_path = ov,
                                                 !.debug_build = dbg],
                           "multi")
            \/ \E pc \in PostCommands :
                    Run(ld, d, [NoArgs EXCEPT !.preferred = TRUE, !.post_command = pc],
                        "multi")

\* The process ends: its memory is gone, the two files stay.
Exit ==
    /\ op # "idle"
    /\ op' = "idle"
    /\ preFile' = Absent
    /\ preBackup' = Absent
    /\ loaded' = NoLoad
    /\ cwd' = "d1"
    /\ args' = NoArgs
    /\ cache' = EmptyStore
    /\ result' = "none"
    /\ saves' = 0
    /\ resolved' = None
    /\ ran' = <<>>
    /\ UNCHANGED <<file, backup, procs, log>>

Next ==
    \/ Exit
    \/ LoadFails
    \/ List
    \/ Remove
    \/ RejectPair
    \/ Explicit
    \/ Prompted
    \/ Single
    \/ Multi

Spec == Init /\ [][Next]_vars

----------------------------------------------------------------------------
(* Migration on its own: every legacy file of a bounded set, and files    *)
(* that are neither envelope nor legacy, read by a --list invocation.      *)

DirAbs == <<"/", "a">>

LegacyEntryDocs ==
    {LegacyEntryDoc(h, d) : h \in {HostA, HostB}, d \in {DirA, DirB, DirAbs}}
    \cup {LegacyEntryDocFull(h, d, ov, pc) :
            h \in {HostA, HostB}, d \in {DirA, DirB, DirAbs},
            ov \in Overrides, pc \in PostCommands}

LegacyFiles ==
    {LegacyEmpty}
    \cup {JObj("d1" :> e) : e \in LegacyEntryDocs}
    \cup {JObj("d2" :> LegacyEntryDoc(h, DirA)) : h \in {HostA, HostB}}
    \cup {JObj(("d1" :> e) @@ ("d2" :> LegacyEntryDoc(h, DirA))) :
            e \in LegacyEntryDocs, h \in {HostA, HostB}}

\* an envelope whose entry has no name
BrokenEnvelope ==
    JObj([version |-> JStr(current_version),
          entries |-> JObj("d1" :> JArr(<< JObj([remote_host |-> JStr(HostA),
                                                  remote_dir |-> JStr(DirA)]) >>))])
\* a legacy map whose remote_dir is null
WrongType ==
    JObj("d1" :> JObj([remote_host |-> JStr(HostA), remote_dir |-> JNull]))

UnrecognisedFiles == {NotJson, Unrecognised, BrokenEnvelope, WrongType, JNull}

\* envelopes another release wrote: an older, a newer and an empty version
\* string, over stores with no directory, an empty list, two entries, and
\* two entries of one name that are both preferred
OtherVersionFiles ==
    {OtherVersion}
    \cup {JObj([version |-> JStr(v), entries |-> SerStore(s)]) :
            v \in {<<"old">>, <<"new">>, <<>>},
            s \in {EmptyStore,
                   "d1" :> <<>>,
                   "d1" :> << RemoteEntry(<<"n">>, HostA, DirA, <<>>, None, FALSE, <<>>),
                              RemoteEntry(<<"m">>, HostB, DirAbs, << <<"p">> >>,
                                          Some(<<"c">>), TRUE, << <<"i">> >>) >>,
                   ("d1" :> << RemoteEntry(<<"n">>, HostB, DirB, <<>>, None, TRUE, <<>>),
                               RemoteEntry(<<"n">>, HostA, DirA, << <<"p">> >>,
                                           None, TRUE, <<>>) >>)
                   @@ ("d2" :> << RemoteEntry(<<"n">>, HostA, DirA, <<>>, None,
                                              FALSE, <<>>) >>)}}

InitMig ==
    /\ file \in LegacyFiles \cup UnrecognisedFiles \cup OtherVersionFiles \cup {Absent}
    /\ backup = Absent
    /\ preFile = Absent
    /\ preBackup = Absent
    /\ loaded = NoLoad
    /\ op = "idle"
    /\ cwd = "d1"
    /\ args = NoArgs
    /\ cache = EmptyStore
    /\ result = "none"
    /\ saves = 0
    /\ resolved = None
    /\ ran = <<>>
    /\ procs = <<>>
    /\ log = <<>>

\* what can be at the cache path later: a file an older release wrote or the
\* user put back, something else, or nothing
LaterFiles == {LegacyOne, LegacyTwo, Unrecognised, Absent}

\* Between two invocations cache.json is replaced from outside the program.
FoundLater ==
    /\ op = "idle"
    /\ file' \in LaterFiles
    /\ file' # file
    /\ UNCHANGED <<backup, preFile, preBackup, loaded, op, cwd, args, cache,
                   result, saves, resolved, ran, procs, log>>

NextMig ==
    \/ Exit
    \/ LoadFails
    \/ List
    \/ FoundLater

SpecMig == InitMig /\ [][NextMig]_vars

----------------------------------------------------------------------------
(* save_cache then read_cache on every store of a bounded set, whether or  *)
(* not its names are unique and however many entries are preferred.        *)

RTEntries ==
    {RemoteEntry(<<"n">>, HostA, DirA, <<>>, None, FALSE, <<>>),
     RemoteEntry(<<"n">>, HostB, DirB, << <<"p">> >>, Some(<<"c">>), TRUE,
                 << <<"i">> >>),
     RemoteEntry(<<"m">>, HostA, <<>>, << <<"p">>, <<"q">> >>, Some(<<>>), FALSE,
                 <<>>),
     RemoteEntry(<<>>, HostB, DirAbs, <<>>, None, TRUE, << <<"i">>, <<"j">> >>)}

RTLists == UNION {[1..n -> RTEntries] : n \in 0..MaxListLen}

RTStores ==
    {"d1" :> l : l \in RTLists}
    \cup {("d1" :> l) @@ ("d2" :> m) : l \in RTLists, m \in {<<>>} \cup {<<e>> : e \in RTEntries}}

InitRT ==
    /\ cache \in RTStores \cup {EmptyStore}
    /\ file \in {Absent, LegacyOne}
    /\ backup = Absent
    /\ preFile = Absent
    /\ preBackup = Absent
    /\ loaded = NoLoad
    /\ op = "store"
    /\ cwd = "d1"
    /\ args = NoArgs
    /\ result = "none"
    /\ saves = 0
    /\ resolved = None
    /\ ran = <<>>
    /\ procs = <<>>
    /\ log = <<>>

\* migration_manager.save_cache(&cache_path, &cache)
SaveStore ==
    /\ op = "store"
    /\ op' = "saved"
    /\ preFile' = file
    /\ file' = save_cache(cache)
    /\ saves' = saves + 1
    /\ UNCHANGED <<backup, preBackup, loaded, cwd, args, cache, result, resolved, ran>>
    /\ UNCHANGED <<procs, log>>

\* migration_manager.read_cache(&cache_path) by the same release
LoadStore ==
    /\ op = "saved"
    /\ op' = "reloaded"
    /\ \E ld \in {read_cache(file, backup, TRUE)} :
        /\ loaded' = ld
        /\ file' = ld.file
        /\ backup' = ld.backup
    /\ UNCHANGED <<preFile, preBackup, cwd, args, cache, result, saves, resolved, ran>>
    /\ UNCHANGED <<procs, log>>

NextRT ==
    \/ SaveStore
    \/ LoadStore

SpecRT == InitRT /\ [][NextRT]_vars

----------------------------------------------------------------------------
(* generate_unique_name on every host and every list of distinct names of  *)
(* a bounded set.  Here `resolved` holds the generated name.               *)

NamedEntry(n) == RemoteEntry(n, HostA, DirA, <<>>, None, FALSE, <<>>)

ExistingNames ==
    {<<"h">>, <<"h", "_", "1">>, <<"h", "_", "2">>, <<"h", "_", "3">>,
     <<"h", "_", "x">>, <<"g">>}

NameHosts == {<<"h">>, <<"h", ":", "2">>, <<"g", "_", "1">>}

NameLists ==
    {l \in UNION {[1..n -> ExistingNames] : n \in 0..MaxNames} :
        \A i, j \in 1..Len(l) : i # j => l[i] # l[j]}

InitName ==
    /\ cache \in {"d1" :> [i \in 1..Len(l) |-> NamedEntry(l[i])] : l \in NameLists}
    /\ cwd \in Dirs
    /\ args \in {[NoArgs EXCEPT !.remote_host = Some(h)] : h \in NameHosts}
    /\ file = Absent
    /\ backup = Absent
    /\ preFile = Absent
    /\ preBackup = Absent
    /\ loaded = NoLoad
    /\ op = "idle"
    /\ result = "none"
    /\ saves = 0
    /\ resolved = None
    /\ ran = <<>>
    /\ procs = <<>>
    /\ log = <<>>

GenerateName ==
    /\ op = "idle"
    /\ op' = "named"
    /\ resolved' = Some(generate_unique_name(args.remote_host[1], cache, cwd))
    /\ UNCHANGED <<file, backup, preFile, preBackup, loaded, cwd, args, cache,
                   result, saves, ran>>
    /\ UNCHANGED <<procs, log>>

NextName == GenerateName

SpecName == InitName /\ [][NextName]_vars

----------------------------------------------------------------------------
(* Two invocations at once on one cache.json, with no lock.  Each reads    *)
(* the file in read_cache, resolves in its own memory, and saves in two   *)
(* calls: File::create, which truncates the file, then the write of the   *)
(* JSON through the handle create returned, whose offset starts at 0.     *)

\* cache.json right after File::create: no bytes
Truncated == [t |-> "empty"]

\* the bytes of head, then the bytes tail has beyond the length of head
Torn(head, tail) == [t |-> "torn", head |-> head, tail |-> tail]

\* The number of bytes to_writer_pretty writes for the JSON value j nested n
\* deep (two spaces per level; the strings of the model need no escapes).
RECURSIVE PrettyLen(_, _)
RECURSIVE ItemsLen(_, _, _)
RECURSIVE MembersLen(_, _, _)
PrettyLen(j, n) ==
    IF j.t = "null" THEN 4
    ELSE IF j.t = "bool" THEN (IF j.v THEN 4 ELSE 5)
    ELSE IF j.t = "str" THEN Len(j.v) + 2
    ELSE IF j.t = "arr"
    THEN IF Len(j.v) = 0 THEN 2
         ELSE 2 * Len(j.v) + 2 + 2 * n + ItemsLen(j.v, Len(j.v), n + 1)
    ELSE IF DOMAIN j.v = {} THEN 2
         ELSE 2 * Cardinality(DOMAIN j.v) + 2 + 2 * n
                + MembersLen(j.v, DOMAIN j.v, n + 1)

\* the first k items of an array, each after its indentation
ItemsLen(items, k, n) ==
    IF k = 0 THEN 0
    ELSE ItemsLen(items, k - 1, n) + 2 * n + PrettyLen(items[k], n)

\* the members `keys` of an object: indentation, "key", ': ', value
MembersLen(f, keys, n) ==
    IF keys = {} THEN 0
    ELSE MembersLen(f, keys \ {CHOOSE k \in keys : TRUE}, n)
            + 2 * n + Len(CHOOSE k \in keys : TRUE) + 4
            + PrettyLen(f[CHOOSE k \in keys : TRUE], n)

\* length of the file in bytes
RECURSIVE FileSize(_)
FileSize(f) ==
    IF f.t \in {"absent", "empty"} THEN 0
    ELSE IF f.t = "torn" THEN FileSize(f.tail)
    ELSE PrettyLen(f, 0)

\* File::create(cache_path): the file is created or truncated
FileCreate_no_truncate(f) == f

FileCreate(f) == Truncated

\* The write of doc at offset 0 of a file that holds cur: bytes beyond the
\* end of doc stay.
Overlay(cur, doc) == IF FileSize(doc) >= FileSize(cur) THEN doc ELSE Torn(doc, cur)

Procs == {1, 2}

\* what the two invocations are asked to do
ConcArgs ==
    {[NoArgs EXCEPT !.remote_host = Some(HostA), !.remote_dir = Some(DirA),
                    !.name = Some(<<"n">>), !.post_command = Some(<<"c">>)],
     [NoArgs EXCEPT !.remote_host = Some(HostA), !.remote_dir = Some(DirA)],
     [NoArgs EXCEPT !.remove = Some(<<"n">>)],
     [NoArgs EXCEPT !.list = TRUE]}

\* cache.json when they start
ConcFiles ==
    {Absent,
     save_cache("d1" :> << RemoteEntry(<<"n">>, HostA, DirA, <<>>, None, FALSE, <<>>) >>)}

Started(a) == [pc |-> "start", args |-> a, writes |-> <<>>, cache |-> EmptyStore]

\* main up to its save_cache call, as invocation p has it in memory
AfterLoad(a, o) ==
    [pc |-> IF o.writes = <<>> THEN "done" ELSE "loaded", args |-> a,
     writes |-> o.writes, cache |-> o.cache]

InitConc ==
    /\ file \in ConcFiles
    /\ backup = Absent
    /\ preFile = Absent
    /\ preBackup = Absent
    /\ loaded = NoLoad
    /\ op = "idle"
    /\ cwd = "d1"
    /\ args = NoArgs
    /\ cache = EmptyStore
    /\ result = "none"
    /\ saves = 0
    /\ resolved = None
    /\ ran = <<>>
    /\ procs \in [Procs -> {Started(a) : a \in ConcArgs}]
    /\ log = <<>>

\* read_cache and the resolver of invocation p
Load(p) ==
    /\ procs[p].pc = "start"
    /\ \E ld \in {read_cache(file, backup, TRUE)} :
          /\ backup' = ld.backup
          /\ procs' = [procs EXCEPT
                          ![p] = AfterLoad(procs[p].args,
                                           MainLoaded(ld, cwd, procs[p].args))]
    /\ UNCHANGED <<file, log, preFile, preBackup, loaded, op, cwd, args, cache,
                   result, saves, resolved, ran>>

\* save_cache of invocation p: File::create
Create(p) ==
    /\ procs[p].pc = "loaded"
    /\ file' = FileCreate(file)
    /\ procs' = [procs EXCEPT ![p].pc = "created"]
    /\ log' = Append(log, [ev |-> "create", p |-> p])
    /\ UNCHANGED <<backup, preFile, preBackup, loaded, op, cwd, args, cache,
                   result, saves, resolved, ran>>

\* save_cache of invocation p: to_writer_pretty
Write(p) ==
    /\ procs[p].pc = "created"
    /\ file' = Overlay(file, save_cache(procs[p].writes[Len(procs[p].writes)]))
    /\ procs' = [procs EXCEPT ![p].pc = "done"]
    /\ log' = Append(log, [ev |-> "write", p |-> p])
    /\ UNCHANGED <<backup, preFile, preBackup, loaded, op, cwd, args, cache,
                   result, saves, resolved, ran>>

NextConc ==
    \/ \E p \in Procs : Load(p)
    \/ \E p \in Procs : Create(p)
    \/ \E p \in Procs : Write(p)

SpecConc == InitConc /\ [][NextConc]_vars

----------------------------------------------------------------------------
(* Sync steps: invocations that sync, with two override paths, a post-sync
   command, --shell, and a subprocess failing at any step or at none *)

\* no option; -o p -o q with a post-sync command; -o q -o p without one
SyncArgs ==
    {[NoArgs EXCEPT !.override_path = opt[1], !.post_command = opt[2],
                    !.shell = sh, !.fail_step = fs] :
        opt \in {<< <<>>, None >>,
                 << << <<"p">>, <<"q">> >>, Some(<<"c">>) >>,
                 << << <<"q">>, <<"p">> >>, None >>},
        sh \in BOOLEAN, fs \in 0..MaxFailAt}

InitSync ==
    /\ file \in {Absent, LegacyOne}
    /\ backup = Absent
    /\ preFile = Absent
    /\ preBackup = Absent
    /\ loaded = NoLoad
    /\ op = "idle"
    /\ cwd = "d1"
    /\ args = NoArgs
    /\ cache = EmptyStore
    /\ result = "none"
    /\ saves = 0
    /\ resolved = None
    /\ ran = <<>>
    /\ procs = <<>>
    /\ log = <<>>

\* host and dir given
SyncExplicit ==
    \E ld \in {read_cache(file, backup, TRUE)} :
        \E d \in Cwds, a \in SyncArgs, hd \in {<<HostA, DirA>>, <<HostB, DirAbs>>} :
            Run(ld, d, [a EXCEPT !.remote_host = Some(hd[1]),
                                 !.remote_dir = Some(hd[2])],
                "explicit")

\* neither given, one entry stored
SyncSingle ==
    \E ld \in {read_cache(file, backup, TRUE)} :
        \E d \in Cwds, a \in SyncArgs : Run(ld, d, a, "single")

\* neither given, several entries stored: one is chosen at the prompt
SyncMulti ==
    \E ld \in {read_cache(file, backup, TRUE)} :
        \E d \in Cwds, a \in SyncArgs, k \in 1..MaxEntries :
            Run(ld, d, [a EXCEPT !.stdin = <<Decimal(k)>>], "multi")

NextSync ==
    \/ Exit
    \/ SyncExplicit
    \/ SyncSingle
    \/ SyncMulti

SpecSync == InitSync /\ [][NextSync]_vars

----------------------------------------------------------------------------
(* Properties *)

\* the store the next invocation's read_cache returns
StoreOf(f) == read_cache(f, Absent, TRUE).entries

\* the current directory's list as main has it before it acts
Before == EnsureDir(loaded.entries, cwd)[cwd]

UniqueIn(entries) ==
    \A i, j \in 1..Len(entries) : i # j => entries[i].name # entries[j].name

PreferredCount(entries) == Cardinality({i \in 1..Len(entries) : entries[i].preferred})

\* entries without its k-th entry
Without(entries, k) == SubSeq(entries, 1, k - 1) \o SubSeq(entries, k + 1, Len(entries))

\* C1: from the empty store, a migrated legacy file or another release's
\* envelope, after any sequence of list, remove and resolver invocations no
\* directory's list has two entries with the same name, in memory or in the
\* cache file.
C1_NamesUnique ==
    /\ \A d \in DOMAIN cache : UniqueIn(cache[d])
    /\ \A d \in DOMAIN StoreOf(file) : UniqueIn(StoreOf(file)[d])

\* an explicit host+dir invocation met its name in a list of two and saved
C1_Witness ==
    /\ op = "explicit"
    /\ saves = 1
    /\ Len(Before) = 2
    /\ Position(Before, resolved[1].name) = 2
    /\ Len(cache[cwd]) = 2

\* C2: every list has at most one preferred entry, in memory and in the
\* cache file; and when a resolver invocation with the preferred flag
\* saves, the entry it resolved is preferred and no other entry of the
\* directory is.
C2_OnePreferred ==
    /\ \A d \in DOMAIN cache : PreferredCount(cache[d]) <= 1
    /\ \A d \in DOMAIN StoreOf(file) : PreferredCount(StoreOf(file)[d]) <= 1
    /\ (op \in {"explicit", "single", "multi"} /\ args.preferred /\ saves = 1)
        => \A i \in 1..Len(cache[cwd]) :
              cache[cwd][i].preferred <=> cache[cwd][i].name = resolved[1].name

\* the flag moved from one entry of a two-entry list to the other
C2_Witness ==
    /\ op \in {"explicit", "multi"}
    /\ args.preferred
    /\ saves = 1
    /\ Len(Before) = 2
    /\ Len(cache[cwd]) = 2
    /\ \E i \in 1..2 : Before[i].preferred /\ Before[i].name # resolved[1].name

\* C3: when read_cache migrates a legacy file, cache.json.bak holds the
\* content cache.json had when the invocation started, read_cache itself
\* has not written cache.json, and so every save of the invocation comes
\* after the backup; when the backup copy fails the invocation fails with
\* no save and cache.json as it was.
C3_BackupBeforeOverwrite ==
    /\ loaded.path = "migrated"
        => /\ loaded.backup = preFile
           /\ loaded.file = preFile
           /\ backup = preFile
    /\ (op # "idle" /\ can_migrate(preFile) /\ ~VersionedParses(preFile)
            /\ file # preFile)
        => backup = preFile
    /\ (op # "idle" /\ loaded.result # "ok")
        => /\ result = "io_error"
           /\ saves = 0
           /\ file = preFile

\* a legacy file was migrated and then overwritten by the save
C3_Witness ==
    /\ loaded.path = "migrated"
    /\ preBackup = Absent
    /\ saves = 1
    /\ file # preFile
    /\ backup = preFile

\* the k-th character of host, '_', dir with '/' replaced by '_'
SlugChar(h, d, k) ==
    IF k <= Len(h) THEN h[k]
    ELSE IF k = Len(h) + 1 THEN "_"
    ELSE IF d[k - Len(h) - 1] = "/" THEN "_"
    ELSE d[k - Len(h) - 1]

\* the JSON value of key k of legacy entry j, or dflt when the key is missing
FieldOr(j, k, dflt) == IF k \in DOMAIN j.v THEN j.v[k] ELSE dflt

\* C4: migrating a legacy file gives a store with the file's directory
\* keys, each with one entry that has the legacy host, dir, override paths
\* and post-sync command, preferred = false, no ignore patterns, and the
\* name host, '_', dir with every '/' replaced by '_'.
C4_MigratedEntries ==
    loaded.path = "migrated"
        => /\ DOMAIN loaded.entries = DOMAIN preFile.v
           /\ \A d \in DOMAIN preFile.v :
                /\ Len(loaded.entries[d]) = 1
                /\ loaded.entries[d][1].remote_host = preFile.v[d].v["remote_host"].v
                /\ loaded.entries[d][1].remote_dir = preFile.v[d].v["remote_dir"].v
                /\ ToJStrArr(loaded.entries[d][1].override_paths)
                      = FieldOr(preFile.v[d], "override_paths", JArr(<<>>))
                /\ ToJOptStr(loaded.entries[d][1].post_sync_command)
                      = FieldOr(preFile.v[d], "post_sync_command", JNull)
                /\ loaded.entries[d][1].preferred = FALSE
                /\ loaded.entries[d][1].ignore_patterns = <<>>
                /\ Len(loaded.entries[d][1].name)
                      = Len(loaded.entries[d][1].remote_host) + 1
                        + Len(loaded.entries[d][1].remote_dir)
                /\ \A k \in 1..Len(loaded.entries[d][1].name) :
                      loaded.entries[d][1].name[k]
                        = SlugChar(loaded.entries[d][1].remote_host,
                                   loaded.entries[d][1].remote_dir, k)

\* a legacy file with two directories, one of them with a '/' in its remote
\* dir and with override paths and a post-sync command, was migrated
C4_Witness ==
    /\ loaded.path = "migrated"
    /\ DOMAIN preFile.v = {"d1", "d2"}
    /\ loaded.entries["d1"][1].remote_dir = DirA
    /\ loaded.entries["d1"][1].override_paths # <<>>
    /\ loaded.entries["d1"][1].post_sync_command # None

\* C5: a store saved by save_cache and read back by read_cache of the same
\* release is the store that was saved: same directory keys, same entries in
\* the same order, same value of every field.
C5_RoundTrip ==
    op = "reloaded"
        => /\ loaded.result = "ok"
           /\ loaded.path = "current"
           /\ loaded.entries = cache

\* a store with two entries of one name, one preferred with a command, and a
\* second directory, went through the file
C5_Witness ==
    /\ op = "reloaded"
    /\ DOMAIN cache = {"d1", "d2"}
    /\ Len(cache["d1"]) = 2
    /\ cache["d1"][1].name = cache["d1"][2].name
    /\ cache["d1"][2].preferred
    /\ cache["d1"][2].post_sync_command # None
    /\ ~cache["d1"][1].preferred

\* C6: read_cache of an absent file, and of a file that is neither an
\* envelope nor accepted by the legacy migrator, returns Ok with the empty
\* store and writes neither cache.json nor cache.json.bak; read_cache fails
\* only when the backup copy of a legacy file fails.
C6_LoadTolerant ==
    /\ (op # "idle" /\ (preFile = Absent
                        \/ (~VersionedParses(preFile) /\ ~can_migrate(preFile))))
        => /\ loaded.result = "ok"
           /\ loaded.entries = EmptyStore
           /\ loaded.file = preFile
           /\ loaded.backup = preBackup
    /\ (op # "idle" /\ loaded.result # "ok")
        => /\ loaded.path = "backup_failed"
           /\ can_migrate(preFile)

\* a file that is neither was read while a backup of an earlier migration
\* was there
C6_Witness ==
    /\ op = "list"
    /\ preFile \in UnrecognisedFiles
    /\ preBackup # Absent
    /\ result = "ok"

\* C7: the name generate_unique_name returns differs from the name of every
\* entry already in the directory's list.
C7_FreshName ==
    op = "named"
        => \A d \in DOMAIN cache : \A i \in 1..Len(cache[d]) :
              d = cwd => cache[d][i].name # resolved[1]

\* C8: --remove of a name no entry has fails and leaves the store and the
\* cache file as they were; --remove of a name an entry has deletes that
\* entry alone, keeps the others in order, and the next load returns the
\* shortened list.
C8_Remove ==
    op = "remove"
        => IF Position(Before, args.remove[1]) = 0
           THEN /\ result = "validation_error"
                /\ cache = EnsureDir(loaded.entries, cwd)
                /\ saves = 0
                /\ file = preFile
           ELSE /\ result = "ok"
                /\ cache[cwd] = Without(Before, Position(Before, args.remove[1]))
                /\ DOMAIN cache = DOMAIN loaded.entries \cup {cwd}
                /\ \A d \in DOMAIN cache \ {cwd} : cache[d] = loaded.entries[d]
                /\ StoreOf(file) = cache

\* the second of two entries was removed, another directory being there
C8_Witness ==
    /\ op = "remove"
    /\ result = "ok"
    /\ Len(Before) = 2
    /\ Position(Before, args.remove[1]) = 2
    /\ "d2" \in DOMAIN cache

\* C9 as stated: every invocation with exactly one of remote_host and
\* remote_dir fails with a validation error and leaves cache.json unchanged,
\* whichever other options are given.
C9_Original ==
    (op # "idle" /\ IsSome(args.remote_host) # IsSome(args.remote_dir))
        => /\ result = "validation_error"
           /\ file = preFile

\* C9 amended: an invocation with exactly one of remote_host and remote_dir
\* and neither --list nor --remove fails and leaves cache.json unchanged,
\* whichever of name, override paths, post-sync command and preferred are
\* given; the failure is the validation error whenever read_cache succeeded.
C9_PartialPairRejected ==
    (op # "idle" /\ IsSome(args.remote_host) # IsSome(args.remote_dir)
        /\ ~args.list /\ args.remove = None)
        => /\ result \in {"validation_error", "io_error"}
           /\ loaded.result = "ok" => (result = "validation_error" /\ op = "reject_pair")
           /\ saves = 0
           /\ file = preFile

\* remote_dir alone, with a name, override paths and a command, on a store
\* that has entries
C9_Witness ==
    /\ op = "reject_pair"
    /\ args.remote_host = None
    /\ args.remote_dir # None
    /\ args.name # None
    /\ args.override_path # <<>>
    /\ Len(Before) = 2

\* C10: an invocation that ends in a validation failure (or, for the
\* selection 0 in a debug build, in the panic of the subtraction) has saved
\* nothing: cache.json is as it was before the invocation.
C10_NoSaveOnFailure ==
    result \in {"validation_error", "panic"}
        => /\ saves = 0
           /\ file = preFile

\* a selection beyond the list, on a store read from an envelope
C10_Witness ==
    /\ op = "multi"
    /\ result = "validation_error"
    /\ args.stdin = <<Decimal(3)>>
    /\ Len(Before) = 2
    /\ VersionedParses(preFile)

\* entry e as a sibling of the entry a resolver invocation with the
\* preferred flag `flag` acts on
AsSibling(e, flag) == IF flag THEN [e EXCEPT !.preferred = FALSE] ELSE e

\* every directory but the current one has the list it had when loaded
OthersKept ==
    /\ DOMAIN cache = DOMAIN loaded.entries \cup {cwd}
    /\ \A d \in DOMAIN cache \ {cwd} : cache[d] = loaded.entries[d]

\* C11: with host and dir given, an entry of the resolved name is replaced
\* at its position, the length of the list and every other entry staying as
\* they were (but for the preferred flag the invocation takes from them when
\* it sets its own); with no such entry the new one is appended and the list
\* is one longer; the other directories' lists are unchanged and the store
\* is saved.
C11_ReplaceOrAppend ==
    op = "explicit"
        => /\ resolved # None
           /\ resolved[1].remote_host = args.remote_host[1]
           /\ resolved[1].remote_dir = args.remote_dir[1]
           /\ IF \E i \in 1..Len(Before) : Before[i].name = resolved[1].name
              THEN /\ Len(cache[cwd]) = Len(Before)
                   /\ \A i \in 1..Len(Before) :
                        cache[cwd][i] = IF Before[i].name = resolved[1].name
                                        THEN resolved[1]
                                        ELSE AsSibling(Before[i], args.preferred)
              ELSE /\ Len(cache[cwd]) = Len(Before) + 1
                   /\ cache[cwd][Len(Before) + 1] = resolved[1]
                   /\ \A i \in 1..Len(Before) :
                        cache[cwd][i] = AsSibling(Before[i], args.preferred)
           /\ OthersKept
           /\ saves = 1
           /\ StoreOf(file) = cache

\* the first of two entries was replaced by one with other content, without
\* the preferred flag, a second directory being in the store
C11_Witness ==
    /\ op = "explicit"
    /\ ~args.preferred
    /\ Len(Before) = 2
    /\ Before[1].name = resolved[1].name
    /\ Before[1] # resolved[1]
    /\ cache[cwd] = <<resolved[1], Before[2]>>
    /\ "d2" \in DOMAIN cache

\* C12: with neither host nor dir and one entry in the directory, that entry
\* is used whatever --name says, the fields given on the command line are
\* overwritten and all others kept: name, host, dir and ignore patterns
\* always, override paths and post-sync command unless given; the other
\* directories' lists are unchanged and the store is saved.
C12_SingleEntryUpdate ==
    op = "single"
        => /\ Len(Before) = 1
           /\ Len(cache[cwd]) = 1
           /\ resolved = Some(cache[cwd][1])
           /\ cache[cwd][1].name = Before[1].name
           /\ cache[cwd][1].remote_host = Before[1].remote_host
           /\ cache[cwd][1].remote_dir = Before[1].remote_dir
           /\ cache[cwd][1].ignore_patterns = Before[1].ignore_patterns
           /\ cache[cwd][1].override_paths
                = IF args.override_path # <<>> THEN args.override_path
                  ELSE Before[1].override_paths
           /\ cache[cwd][1].post_sync_command
                = IF args.post_command # None THEN args.post_command
                  ELSE Before[1].post_sync_command
           /\ cache[cwd][1].preferred = (args.preferred \/ Before[1].preferred)
           /\ OthersKept
           /\ saves = 1
           /\ StoreOf(file) = cache

\* only override paths given, with the name of no entry, on an entry that
\* has a post-sync command
C12_Witness ==
    /\ op = "single"
    /\ args.override_path # <<>>
    /\ args.post_command = None
    /\ ~args.preferred
    /\ args.name # None
    /\ args.name[1] # Before[1].name
    /\ Before[1].post_sync_command # None
    /\ Before[1].override_paths # args.override_path
    /\ "d2" \in DOMAIN cache

\* the line typed at the prompt of select_remote is the number k
Typed(k) ==
    /\ args.stdin # <<>>
    /\ args.stdin[1] \in {Decimal(k), Decimal(k) \o <<"\n">>}

\* the invocation went on with the entry of Before that has the name n
ActsOn(n) ==
    /\ resolved # None
    /\ resolved[1].name = n
    /\ \E i \in 1..Len(Before) : Before[i].name = n

C14_ReadPathNoSave ==
    (op = "multi" /\ args.override_path = <<>> /\ args.post_command = None
        /\ ~args.preferred)
        => /\ saves = 0
           /\ file = preFile
           /\ cache = loaded.entries
           /\ resolved # None => \E i \in 1..Len(Before) : Before[i] = resolved[1]

\* an entry with override paths and a command was selected and synced
C14_Witness ==
    /\ op = "multi"
    /\ args.override_path = <<>>
    /\ args.post_command = None
    /\ ~args.preferred
    /\ resolved # None
    /\ resolved[1].override_paths # <<>>
    /\ result = "ok"
    /\ ran # <<>>

\* C15: an invocation saves the cache file at most once; list, remove, the
\* rejected pair and the failed load yield no entry; a resolver path yields
\* one entry, which is then an entry of the current directory's list, unless
\* it ends in a validation failure, and then none.
C15_AtMostOneSave ==
    /\ saves <= 1
    /\ op \in {"list", "remove", "reject_pair", "load_failed", "idle"}
        => resolved = None
    /\ op \in {"explicit", "prompted", "single", "multi"}
        => /\ Len(resolved) <= 1
           /\ resolved = None <=> result \in {"validation_error", "panic"}
           /\ resolved # None
                => \E i \in 1..Len(cache[cwd]) : cache[cwd][i] = resolved[1]

\* override paths and a command both given with one entry: two fields
\* changed, one save
C15_Witness ==
    /\ op = "single"
    /\ args.override_path # <<>>
    /\ args.post_command # None
    /\ Before[1].override_paths # args.override_path
    /\ Before[1].post_sync_command # args.post_command
    /\ saves = 1
    /\ resolved = Some(cache[cwd][1])

AllDone == procs # <<>> /\ \A p \in Procs : procs[p].pc = "done"

\* the invocation whose write came last, and the file save_cache made of its store
LastWriter == log[Len(log)].p
LastWritten == save_cache(procs[LastWriter].writes[Len(procs[LastWriter].writes)])

\* no save overlaps another: every File::create is followed at once by the
\* write of the same invocation
NoOverlap ==
    \A i \in 1..Len(log) :
        log[i].ev = "create"
            => i < Len(log) /\ log[i + 1] = [ev |-> "write", p |-> log[i].p]

C17_ListReadOnly ==
    op = "list"
        => /\ result = "ok"
           /\ saves = 0
           /\ file = preFile
           /\ Len(list_remotes(cache, cwd)) = Len(Before)
           /\ \A i \in 1..Len(Before) :
                /\ list_remotes(cache, cwd)[i].index = i
                /\ list_remotes(cache, cwd)[i].name = Before[i].name
                /\ list_remotes(cache, cwd)[i].preferred = Before[i].preferred
           /\ preFile = Absent
                => /\ list_remotes(cache, cwd) = <<>>
                   /\ file = Absent
                   /\ backup = preBackup

\* two entries listed, the second the preferred one, from a file that stays
C17_Witness ==
    /\ op = "list"
    /\ VersionedParses(preFile)
    /\ Len(list_remotes(cache, cwd)) = 2
    /\ list_remotes(cache, cwd)[2].preferred
    /\ file = preFile

\* C18: once cache.json.bak is there, no step of the program changes what it
\* holds, a later migration of another legacy file included.
C18_BackupKept == [][backup # Absent => backup' = backup]_vars

\* the names of the current directory's list
NamesHere == {cache[cwd][i].name : i \in 1..Len(cache[cwd])}

\* the N for which base_<N> is a name of the list
IndicesOf(base) ==
    {ParseUsize(SubSeq(n, Len(base) + 2, Len(n))).v :
        n \in {m \in NamesHere :
                /\ StartsWith(m, base \o <<"_">>)
                /\ ParseUsize(SubSeq(m, Len(base) + 2, Len(m))).ok
                /\ Decimal(ParseUsize(SubSeq(m, Len(base) + 2, Len(m))).v)
                      = SubSeq(m, Len(base) + 2, Len(m))}}

\* the larger of 1 and one more than the largest such N
NextFree(base) ==
    IF IndicesOf(base) = {} THEN 1
    ELSE Max(1, 1 + CHOOSE n \in IndicesOf(base) : \A m \in IndicesOf(base) : m <= n)

\* C19: when the base name is among the names of the directory's list,
\* generate_unique_name returns base_<k>, k the larger of 1 and one more
\* than the largest N with base_<N> in the list, in whatever order the
\* entries are.
C19_NextIndex ==
    (op = "named" /\ cwd \in DOMAIN cache
        /\ BeforeColon(args.remote_host[1]) \in NamesHere)
        => resolved[1]
             = BeforeColon(args.remote_host[1]) \o <<"_">>
                 \o Decimal(NextFree(BeforeColon(args.remote_host[1])))

\* C20: with no entry for the current directory and host and dir given, the
\* list has one entry afterwards, with that host and dir, named by --name if
\* given and otherwise host, '_', dir with every '/' replaced by '_', and not
\* preferred unless the preferred flag is given.
C20_FirstEntry ==
    (op = "explicit" /\ Before = <<>>)
        => /\ Len(cache[cwd]) = 1
           /\ resolved = Some(cache[cwd][1])
           /\ StoreOf(file)[cwd] = cache[cwd]
           /\ cache[cwd][1].remote_host = args.remote_host[1]
           /\ cache[cwd][1].remote_dir = args.remote_dir[1]
           /\ cache[cwd][1].preferred = args.preferred
           /\ args.name # None => cache[cwd][1].name = args.name[1]
           /\ args.name = None
                => /\ Len(cache[cwd][1].name)
                        = Len(args.remote_host[1]) + 1 + Len(args.remote_dir[1])
                   /\ \A k \in 1..Len(cache[cwd][1].name) :
                        cache[cwd][1].name[k]
                          = SlugChar(args.remote_host[1], args.remote_dir[1], k)

\* host h and dir x/y, no name and no flag, on a store without entries for
\* the directory but with another directory's
C20_Witness ==
    /\ op = "explicit"
    /\ Before = <<>>
    /\ args.name = None
    /\ ~args.preferred
    /\ cache[cwd][1].name = <<"h", "_", "x", "_", "y">>
    /\ ~cache[cwd][1].preferred
    /\ "d2" \in DOMAIN cache

\* C21: after any save the cache file is an object with exactly the members
\* version and entries, its version is the program's own and its entries
\* deserialize to the whole in-memory store, directory by directory and entry
\* by entry; it is never a document the legacy migrator accepts.  So a run
\* that finds a file an earlier run has written (any file other than the
\* initial ones) loads it as the current version: no migrator runs and the
\* backup file is not touched.
C21_SavedEnvelope ==
    /\ saves >= 1
        => /\ IsJObj(file)
           /\ DOMAIN file.v = {"version", "entries"}
           /\ file.v["version"] = JStr(current_version)
           /\ StoreParses(file.v["entries"])
           /\ DOMAIN file.v["entries"].v = DOMAIN cache
           /\ \A d \in DOMAIN cache :
                /\ Len(file.v["entries"].v[d].v) = Len(cache[d])
                /\ \A i \in 1..Len(cache[d]) :
                      DeEntry(file.v["entries"].v[d].v[i]) = cache[d][i]
           /\ ~can_migrate(file)
    /\ (op # "idle" /\ preFile \notin InitFiles)
        => /\ loaded.result = "ok"
           /\ loaded.path = "current"
           /\ loaded.backup = preBackup
           /\ backup = preBackup

\* a legacy file was migrated and saved by an earlier run (its backup
\* exists); this run loads the saved file as current and saves again
C21_Witness ==
    /\ op # "idle"
    /\ preBackup \in {LegacyOne, LegacyTwo}
    /\ preFile \notin InitFiles
    /\ loaded.path = "current"
    /\ saves = 1
    /\ Len(cache[cwd]) = 2

\* C22: when the cache file is an object with a string version other than
\* the program's and an entries member that parses as a store, the load
\* succeeds with the file's directories, each with as many entries as the
\* file lists and each entry with the file's name, host, dir, override
\* paths, post-sync command, preferred flag and ignore patterns (the
\* defaults where the file leaves a field out); no migrator runs, and the
\* cache file and the backup file are as they were.
C22_OtherVersionAsIs ==
    (/\ op # "idle"
     /\ preFile \notin {Absent, NotJson}
     /\ IsJObj(preFile)
     /\ HasKey(preFile, "version") /\ IsJStr(preFile.v["version"])
     /\ preFile.v["version"].v # current_version
     /\ HasKey(preFile, "entries") /\ StoreParses(preFile.v["entries"]))
        => /\ loaded.result = "ok"
           /\ loaded.path = "other_version"
           /\ DOMAIN loaded.entries = DOMAIN preFile.v["entries"].v
           /\ \A d \in DOMAIN loaded.entries :
                /\ Len(loaded.entries[d]) = Len(preFile.v["entries"].v[d].v)
                /\ \A i \in 1..Len(loaded.entries[d]) :
                      /\ JStr(loaded.entries[d][i].name)
                            = preFile.v["entries"].v[d].v[i].v["name"]
                      /\ JStr(loaded.entries[d][i].remote_host)
                            = preFile.v["entries"].v[d].v[i].v["remote_host"]
                      /\ JStr(loaded.entries[d][i].remote_dir)
                            = preFile.v["entries"].v[d].v[i].v["remote_dir"]
                      /\ ToJStrArr(loaded.entries[d][i].override_paths)
                            = FieldOr(preFile.v["entries"].v[d].v[i],
                                      "override_paths", JArr(<<>>))
                      /\ ToJOptStr(loaded.entries[d][i].post_sync_command)
                            = FieldOr(preFile.v["entries"].v[d].v[i],
                                      "post_sync_command", JNull)
                      /\ JBool(loaded.entries[d][i].preferred)
                            = FieldOr(preFile.v["entries"].v[d].v[i],
                                      "preferred", JBool(FALSE))
                      /\ ToJStrArr(loaded.entries[d][i].ignore_patterns)
                            = FieldOr(preFile.v["entries"].v[d].v[i],
                                      "ignore_patterns", JArr(<<>>))
           /\ loaded.file = preFile
           /\ loaded.backup = preBackup
           /\ file = preFile
           /\ backup = preBackup
           /\ saves = 0

\* --list on an envelope of a newer version with two directories, the
\* current one holding two preferred entries of one name
C22_Witness ==
    /\ op = "list"
    /\ loaded.path = "other_version"
    /\ preFile.v["version"] = JStr(<<"new">>)
    /\ DOMAIN loaded.entries = {"d1", "d2"}
    /\ Len(loaded.entries["d1"]) = 2
    /\ loaded.entries["d1"][1].name = loaded.entries["d1"][2].name
    /\ loaded.entries["d1"][1].preferred /\ loaded.entries["d1"][2].preferred
    /\ file = preFile

\* the number of steps the resolved entry and --shell call for
PlannedLen ==
    2 + Len(resolved[1].override_paths)
      + (IF resolved[1].post_sync_command # None THEN 1 ELSE 0)
      + (IF args.shell THEN 1 ELSE 0)

\* C23: an invocation that resolved an entry starts with the remote-home
\* lookup on the entry's host, then transfers ".", then transfers the
\* entry's override paths one each in list order, then runs the entry's
\* post-sync command if it has one, then opens the shell if --shell was
\* given, and runs nothing else.  If the k-th of these steps exits non-zero
\* the invocation fails and exactly the first k steps were started, each
\* once; if none does the invocation succeeds with all of them.  Either way
\* the cache file is what the resolver saved (the whole store, with the
\* resolved entry in it) or, when the path did not save, what the load left.
C23_StepsInOrder ==
    (op \in {"explicit", "single", "multi"} /\ resolved # None)
        => /\ result \in {"ok", "subprocess_error"}
           /\ Len(ran) \in 1..PlannedLen
           /\ ran[1] = [step |-> "remote_home", arg |-> resolved[1].remote_host]
           /\ Len(ran) >= 2 => ran[2] = [step |-> "sync_main", arg |-> <<".">>]
           /\ \A i \in 1..Len(resolved[1].override_paths) :
                Len(ran) >= 2 + i
                    => ran[2 + i] = [step |-> "sync_override",
                                     arg |-> resolved[1].override_paths[i]]
           /\ \A i \in (3 + Len(resolved[1].override_paths))..Len(ran) :
                \/ /\ resolved[1].post_sync_command # None
                   /\ ran[i] = [step |-> "post_command",
                                arg |-> resolved[1].post_sync_command[1]]
                   /\ i = 3 + Len(resolved[1].override_paths)
                \/ /\ ran[i] = [step |-> "shell", arg |-> resolved[1].remote_host]
                   /\ args.shell
                   /\ i = PlannedLen
           /\ result = "ok" <=> args.fail_step \notin 1..PlannedLen
           /\ result = "ok" => Len(ran) = PlannedLen
           /\ result = "subprocess_error" => Len(ran) = args.fail_step
           /\ saves \in {0, 1}
           /\ saves = 1
                => /\ StoreOf(file) = cache
                   /\ \E i \in 1..Len(cache[cwd]) : cache[cwd][i] = resolved[1]
           /\ saves = 0 => file = loaded.file

\* host and dir given with the override paths q, p and --shell: the entry
\* is saved, and the transfer of the second override path exits non-zero
C23_Witness ==
    /\ op = "explicit"
    /\ saves = 1
    /\ result = "subprocess_error"
    /\ resolved[1].override_paths = << <<"q">>, <<"p">> >>
    /\ args.shell
    /\ args.fail_step = 4
    /\ Len(ran) = 4
    /\ ran[3].arg = <<"q">>
    /\ ran[4] = [step |-> "sync_override", arg |-> <<"p">>]
    /\ \E i \in 1..Len(StoreOf(file)[cwd]) : StoreOf(file)[cwd][i] = resolved[1]

\* C24: when the prompt is reached with n entries listed (no name given, no
\* preferred flag, no entry marked preferred), typing the number k acts on
\* the k-th entry for 1 <= k <= n, and for every other number, 0 and n + 1
\* among them, the invocation fails with a validation error and no entry.
C24_Selection ==
    (/\ op = "multi"
     /\ args.name = None
     /\ ~args.preferred
     /\ PreferredCount(Before) = 0)
        => \A k \in 0..(MaxSelection + 1) :
              Typed(k)
                => IF k \in 1..Len(Before)
                   THEN /\ resolved # None
                        /\ resolved[1].name = Before[k].name
                        /\ result \in {"ok", "subprocess_error"}
                   ELSE /\ resolved = None
                        /\ result = "validation_error"

====
